---------------------------- MODULE Spec2Model ----------------------------
(***************************************************************************)
(* Herald v0.1 (src/herald.py): one World (a bounded grid with a food set) *)
(* and one Herald (position, hunger, alive flag, bounded action log).      *)
(*                                                                         *)
(* Spec is the Herald/World programming interface: after construction any  *)
(* of tick, move, eat, wait, look_around and move_toward may be called in  *)
(* any order, as the methods themselves allow.  Its worlds are a row, a    *)
(* column and the 2 x 2 square.                                            *)
(*                                                                         *)
(* SpecLook applies look_around, a pure read, to every position and food   *)
(* set of a larger grid.                                                   *)
(*                                                                         *)
(* A log entry is modelled by its "type" field.  The other fields of an    *)
(* entry (timestamp, description, state snapshot) are written by           *)
(* log_action and read by no operation of the program.                     *)
(***************************************************************************)
EXTENDS Integers, Sequences, FiniteSets

VARIABLES
    width, height,    \* World.width, World.height
    food_locations,   \* World.food_locations
    x, y,             \* Herald.x, Herald.y
    hunger,           \* Herald.hunger
    alive,            \* Herald.alive
    actions_taken,    \* Herald.actions_taken, the "type" of each entry
    ret,              \* the value the last call returned
    eats,             \* history variable: number of eat() calls that succeeded
    logged,           \* history variable: number of log_action() calls
                      \* made since the initial state
    running,          \* Game.running
    auto_mode,        \* Game.auto_mode
    step_mode,        \* Game.step_mode
    tick_count,       \* Game.tick_count
    pc                \* where Game.run stands

\* the World, the Herald and what is recorded about them
herald == <<width, height, food_locations, x, y, hunger, alive, actions_taken,
            ret, eats, logged>>

\* the Game around them
game == <<running, auto_mode, step_mode, tick_count, pc>>

vars == <<herald, game>>

\* the state of the program, without what the last call returned
core == <<width, height, food_locations, x, y, hunger, alive, actions_taken>>

---------------------------------------------------------------------------
(* Bounds of the model *)

\* Spec: the worlds are a row and a column of Width cells and the 2 x 2 square
\* (Shapes), with at most MaxFood cells of food spawned
Width == 2
MaxFood == 2
\* every call but tick is made while fewer than MaxLog entries were logged
MaxLog == 2
\* Spec: look_around is called with vision_range in 0 .. MaxVision
MaxVision == 1
\* SpecLook: a LookWidth x LookHeight grid holding at most LookFood cells of
\* food, looked at with vision_range in 0 .. LookVision
LookWidth == 3
LookHeight == 3
LookFood == 2
LookVision == 2
\* SpecToward: a TowardWidth x TowardHeight grid
TowardWidth == 4
TowardHeight == 4
\* SpecPolicy: a PolicyWidth x PolicyHeight grid holding at most PolicyFood
\* cells of food; hunger within PolicySpread ticks of 35
PolicyWidth == 4
PolicyHeight == 2
PolicyFood == 2
PolicySpread == 5
\* SpecGame: reset_world builds a GameSide x GameSide World holding at most
\* GameFood cells of food; the commands and decisions that can log are given
\* while fewer than GameLog entries were logged
GameSide == 2
GameFood == 1
GameLog == 1

(* Constants of the program *)

HungerRate == 5
StarveAt == 100
EatRelief == 50
FoodDraws == 8
LogLimit == 20
EatAbove == 30
SeekAbove == 40
SeekVision == 2

Directions == {"north", "south", "east", "west"}
\* what a caller may pass to move(): the four directions and another token
Tokens == Directions \cup {"up"}

Max(a, b) == IF a >= b THEN a ELSE b
Abs(a) == IF a < 0 THEN -a ELSE a

---------------------------------------------------------------------------
(* World *)

Cells(w, h) == (0 .. w - 1) \X (0 .. h - 1)

\* has_food_at comparing the row only
has_food_in_row(food, cx, cy) == \E c \in food : c[2] = cy

has_food_at(food, cx, cy) == <<cx, cy>> \in food

\* remove_food_at with the coordinates swapped
remove_food_swapped(food, cx, cy) == food \ {<<cy, cx>>}

\* remove_food_at comparing the row only
remove_food_row(food, cx, cy) == {c \in food : c[2] # cy}

remove_food_at(food, cx, cy) == food \ {<<cx, cy>>}

is_valid_position(cx, cy) == 0 <= cx /\ cx < width /\ 0 <= cy /\ cy < height

\* the sets spawn_initial_food can leave on a w x h grid: FoodDraws draws,
\* duplicates collapse; at most `most` cells in the model
SpawnedFood(w, h, most) ==
    {S \in SUBSET Cells(w, h) :
        /\ 1 <= Cardinality(S)
        /\ Cardinality(S) <= FoodDraws
        /\ Cardinality(S) <= most}

---------------------------------------------------------------------------
(* Herald *)

None == <<>>

\* a returned (success, message) pair
Result(ok, msg) == [ok |-> ok, msg |-> msg, cell |-> None]
\* a returned food cell, or None (also what tick and the wait command return)
Found(cell) == [ok |-> TRUE, msg |-> "", cell |-> cell]

\* log_action dropping the entry it has just appended
log_action_newest(log, type) ==
    LET appended == Append(log, type)
    IN  IF Len(appended) > LogLimit
        THEN SubSeq(appended, 1, Len(appended) - 1)
        ELSE appended

\* log_action: append, then drop the oldest entry beyond the limit
log_action(log, type) ==
    LET appended == Append(log, type)
    IN  IF Len(appended) > LogLimit THEN Tail(appended) ELSE appended

\* Starves with > for >=
StarvesLate(h) == h + HungerRate > StarveAt

\* tick: whether the incremented hunger kills
Starves(h) == h + HungerRate >= StarveAt

\* tick: the hunger after the increment and the clamp
TickHunger(h) == IF Starves(h) THEN StarveAt ELSE h + HungerRate

\* tick without the test of alive
tick_always ==
    /\ ret' = Found(None)
    /\ hunger' = TickHunger(hunger)
    /\ alive' = ~Starves(hunger)
    /\ actions_taken' = IF Starves(hunger)
                        THEN log_action(actions_taken, "DIED")
                        ELSE actions_taken
    /\ logged' = IF Starves(hunger) THEN logged + 1 ELSE logged
    /\ UNCHANGED <<width, height, food_locations, x, y, eats>>

tick ==
    /\ ret' = Found(None)
    /\ IF alive
       THEN /\ hunger' = TickHunger(hunger)
            /\ alive' = ~Starves(hunger)
            /\ actions_taken' = IF Starves(hunger)
                                THEN log_action(actions_taken, "DIED")
                                ELSE actions_taken
            /\ logged' = IF Starves(hunger) THEN logged + 1 ELSE logged
       ELSE UNCHANGED <<hunger, alive, actions_taken, logged>>
    /\ UNCHANGED <<width, height, food_locations, x, y, eats>>

DeltaX(direction) ==
    IF direction = "east" THEN 1 ELSE IF direction = "west" THEN -1 ELSE 0

DeltaY(direction) ==
    IF direction = "south" THEN 1 ELSE IF direction = "north" THEN -1 ELSE 0

\* move: the message of a successful move, f"Moved {direction}"
Moved(direction) ==
    CASE direction = "north" -> "Moved north"
      [] direction = "south" -> "Moved south"
      [] direction = "east" -> "Moved east"
      [] direction = "west" -> "Moved west"

\* OutOfBounds without the upper limits
OutOfBoundsLow(cx, cy) == cx < 0 \/ cy < 0

\* move: whether the candidate cell is refused and the position put back
OutOfBounds(cx, cy) == ~is_valid_position(cx, cy)

\* MoveBody that does not put the position back when out of bounds
MoveBodyNoRestore(direction) ==
    IF direction \notin Directions
    THEN /\ ret' = Result(FALSE, "Invalid direction")
         /\ UNCHANGED <<x, y, actions_taken, logged>>
    ELSE LET cx == x + DeltaX(direction)
             cy == y + DeltaY(direction)
         IN  IF ~is_valid_position(cx, cy)
             THEN /\ ret' = Result(FALSE, "Can't move there - out of bounds")
                  /\ x' = cx
                  /\ y' = cy
                  /\ UNCHANGED <<actions_taken, logged>>
             ELSE /\ x' = cx
                  /\ y' = cy
                  /\ actions_taken' = log_action(actions_taken, "MOVE")
                  /\ logged' = logged + 1
                  /\ ret' = Result(TRUE, Moved(direction))

\* the body of Herald.move
MoveBody(direction) ==
    IF direction \notin Directions
    THEN /\ ret' = Result(FALSE, "Invalid direction")
         /\ UNCHANGED <<x, y, actions_taken, logged>>
    ELSE LET cx == x + DeltaX(direction)
             cy == y + DeltaY(direction)
         IN  IF OutOfBounds(cx, cy)
             THEN /\ ret' = Result(FALSE, "Can't move there - out of bounds")
                  /\ UNCHANGED <<x, y, actions_taken, logged>>
             ELSE /\ x' = cx
                  /\ y' = cy
                  /\ actions_taken' = log_action(actions_taken, "MOVE")
                  /\ logged' = logged + 1
                  /\ ret' = Result(TRUE, Moved(direction))

move(direction) ==
    /\ logged < MaxLog
    /\ MoveBody(direction)
    /\ UNCHANGED <<width, height, food_locations, hunger, alive, eats>>

\* EatHunger with a relief that is not a multiple of the hunger rate
EatHungerUneven(h) == Max(0, h - EatRelief + 1)

\* EatHunger taking all the hunger away
EatHungerAll(h) == 0

\* EatHunger without the floor
EatHungerNoFloor(h) == h - EatRelief

\* eat: the hunger after a meal
EatHunger(h) == Max(0, h - EatRelief)

\* the body of Herald.eat
EatBody ==
    /\ IF has_food_at(food_locations, x, y)
       THEN /\ food_locations' = remove_food_at(food_locations, x, y)
            /\ hunger' = EatHunger(hunger)
            /\ actions_taken' = log_action(actions_taken, "EAT")
            /\ logged' = logged + 1
            /\ ret' = Result(TRUE, "Ate food! Yum!")
            /\ eats' = eats + 1
       ELSE /\ ret' = Result(FALSE, "No food here to eat")
            /\ UNCHANGED <<food_locations, hunger, actions_taken, logged,
                           eats>>
    /\ UNCHANGED <<width, height, x, y, alive>>

eat ==
    /\ logged < MaxLog
    /\ EatBody

\* the "wait" command: one WAIT entry, nothing else
WaitBody ==
    /\ actions_taken' = log_action(actions_taken, "WAIT")
    /\ logged' = logged + 1
    /\ ret' = Found(None)
    /\ UNCHANGED <<width, height, food_locations, x, y, hunger, alive, eats>>

wait ==
    /\ logged < MaxLog
    /\ WaitBody

\* float('inf'), the nearest distance before any food is seen
Infinity == -1

\* Nearer letting a food cell at the same distance replace the one held
NearerOrEqual(distance, nearest_distance) ==
    nearest_distance = Infinity \/ distance <= nearest_distance

Nearer(distance, nearest_distance) ==
    nearest_distance = Infinity \/ distance < nearest_distance

\* the body of the inner loop of look_around: one cell looked at; nearest is
\* <<nearest_food, nearest_distance>>
LookAt(dx, dy, food, hx, hy, nearest) ==
    IF /\ is_valid_position(hx + dx, hy + dy)
       /\ has_food_at(food, hx + dx, hy + dy)
       /\ Nearer(Abs(dx) + Abs(dy), nearest[2])
    THEN <<(<<hx + dx, hy + dy>>), Abs(dx) + Abs(dy)>>
    ELSE nearest

\* the inner loop, for dy in range(-vision_range, vision_range + 1), from dy on
RECURSIVE ScanDy(_, _, _, _, _, _, _)
ScanDy(dx, dy, vision_range, food, hx, hy, nearest) ==
    IF dy > vision_range
    THEN nearest
    ELSE ScanDy(dx, dy + 1, vision_range, food, hx, hy,
                LookAt(dx, dy, food, hx, hy, nearest))

\* the outer loop, for dx in range(-vision_range, vision_range + 1), from dx on
RECURSIVE ScanDx(_, _, _, _, _, _)
ScanDx(dx, vision_range, food, hx, hy, nearest) ==
    IF dx > vision_range
    THEN nearest
    ELSE ScanDx(dx + 1, vision_range, food, hx, hy,
                ScanDy(dx, -vision_range, vision_range, food, hx, hy, nearest))

\* what look_around returns: a food cell or None
LookAround(vision_range, food, hx, hy) ==
    ScanDx(-vision_range, vision_range, food, hx, hy, <<None, Infinity>>)[1]

look_around(vision_range) ==
    /\ logged < MaxLog
    /\ ret' = Found(LookAround(vision_range, food_locations, x, y))
    /\ UNCHANGED <<width, height, food_locations, x, y, hunger, alive,
                   actions_taken, eats, logged>>

\* TowardDirection preferring the vertical axis when |dx| = |dy|
TowardDirectionVertical(dx, dy) ==
    IF Abs(dx) > Abs(dy)
    THEN (IF dx > 0 THEN "east" ELSE "west")
    ELSE (IF dy > 0 THEN "south" ELSE "north")

\* move_toward: the direction of the one move it makes (dx, dy not both 0)
TowardDirection(dx, dy) ==
    IF Abs(dx) > Abs(dy)
    THEN (IF dx > 0 THEN "east" ELSE "west")
    ELSE IF Abs(dy) > Abs(dx)
         THEN (IF dy > 0 THEN "south" ELSE "north")
         ELSE (IF dx > 0 THEN "east" ELSE "west")

\* the body of Herald.move_toward
MoveTowardBody(target_x, target_y) ==
    LET dx == target_x - x
        dy == target_y - y
    IN  IF dx = 0 /\ dy = 0
        THEN /\ ret' = Result(FALSE, "Already here")
             /\ UNCHANGED <<x, y, actions_taken, logged>>
        ELSE MoveBody(TowardDirection(dx, dy))

move_toward(target_x, target_y) ==
    /\ logged < MaxLog
    /\ MoveTowardBody(target_x, target_y)
    /\ UNCHANGED <<width, height, food_locations, hunger, alive, eats>>

\* the targets a caller passes to move_toward: the cells of the grid and the
\* two cells diagonally off its corners
Targets == Cells(width, height) \cup {<<-1, -1>>, <<width, height>>}

---------------------------------------------------------------------------
(* The programming interface *)

\* no Game: the Herald and the World are used on their own
NoGame ==
    /\ running = TRUE
    /\ auto_mode = FALSE
    /\ step_mode = FALSE
    /\ tick_count = 0
    /\ pc = "none"

\* the <<width, height>> the World is built with
Shapes == {<<Width, 1>>, <<1, Width>>, <<2, 2>>}

\* World(width, height) and Herald(world, x, y) at an in-bounds start cell
Init ==
    /\ \E shape \in Shapes :
          /\ width = shape[1]
          /\ height = shape[2]
          /\ food_locations \in SpawnedFood(shape[1], shape[2], MaxFood)
          /\ x \in 0 .. shape[1] - 1
          /\ y \in 0 .. shape[2] - 1
    /\ hunger = 0
    /\ alive = TRUE
    /\ actions_taken = <<>>
    /\ ret = Found(None)
    /\ eats = 0
    /\ logged = 0
    /\ NoGame

Next ==
    \/ tick /\ UNCHANGED game
    \/ \E direction \in Tokens : move(direction) /\ UNCHANGED game
    \/ eat /\ UNCHANGED game
    \/ wait /\ UNCHANGED game
    \/ \E vision_range \in 0 .. MaxVision :
          look_around(vision_range) /\ UNCHANGED game
    \/ \E t \in Targets : move_toward(t[1], t[2]) /\ UNCHANGED game

Spec == Init /\ [][Next]_vars

---------------------------------------------------------------------------
(* look_around as a function of the position and the food set *)

\* the inputs of look_around: any cell of the grid, any food set of at most
\* LookFood cells (the empty one included: food is eaten)
InitLook ==
    /\ width = LookWidth
    /\ height = LookHeight
    /\ food_locations \in
           {S \in SUBSET Cells(LookWidth, LookHeight) :
               Cardinality(S) <= LookFood /\ Cardinality(S) <= FoodDraws}
    /\ x \in 0 .. LookWidth - 1
    /\ y \in 0 .. LookHeight - 1
    /\ hunger = 0
    /\ alive = TRUE
    /\ actions_taken = <<>>
    /\ ret = Found(None)
    /\ eats = 0
    /\ logged = 0
    /\ NoGame

NextLook ==
    \E vision_range \in 0 .. LookVision :
       look_around(vision_range) /\ UNCHANGED game

SpecLook == InitLook /\ [][NextLook]_vars

---------------------------------------------------------------------------
(* move_toward as a function of the position and the target *)

InitToward ==
    /\ width = TowardWidth
    /\ height = TowardHeight
    /\ food_locations = {}
    /\ x \in 0 .. TowardWidth - 1
    /\ y \in 0 .. TowardHeight - 1
    /\ hunger = 0
    /\ alive = TRUE
    /\ actions_taken = <<>>
    /\ ret = Found(None)
    /\ eats = 0
    /\ logged = 0
    /\ NoGame

NextToward ==
    \E t \in Targets : move_toward(t[1], t[2]) /\ UNCHANGED game

SpecToward == InitToward /\ [][NextToward]_vars

---------------------------------------------------------------------------
(* The Herald with a log one entry short of the limit *)

\* the log after one move and n - 1 waits
MoveThenWaits(n) == [i \in 1 .. n |-> IF i = 1 THEN "MOVE" ELSE "WAIT"]

\* a Herald of a row of Width cells that has moved once and waited since,
\* never ticked
InitLog ==
    /\ width = Width
    /\ height = 1
    /\ food_locations \in SpawnedFood(Width, 1, MaxFood)
    /\ x \in 0 .. Width - 1
    /\ y = 0
    /\ hunger = 0
    /\ alive = TRUE
    /\ actions_taken = MoveThenWaits(LogLimit - 1)
    /\ ret = Found(None)
    /\ eats = 0
    /\ logged = 0
    /\ NoGame

NextLog ==
    \/ tick /\ UNCHANGED game
    \/ \E direction \in Tokens : move(direction) /\ UNCHANGED game
    \/ eat /\ UNCHANGED game
    \/ wait /\ UNCHANGED game

SpecLog == InitLog /\ [][NextLog]_vars

---------------------------------------------------------------------------
(* Game.herald_auto_decide *)

\* get_status: 'sees_food'
sees_food == has_food_at(food_locations, x, y)

\* Rule1 asking for more hunger than rule 2
Rule1Hungrier(sees, h) == sees /\ h > SeekAbove

\* Rule1 asking for more hunger than rule 2 by four ticks
Rule1Starving(sees, h) == sees /\ h > SeekAbove + 4 * HungerRate

\* rule 1: food here and hungry
Rule1(sees, h) == sees /\ h > EatAbove

\* Rule2 asking for four ticks more of hunger
Rule2Hungrier(h) == h > SeekAbove + 4 * HungerRate

\* rule 2: very hungry
Rule2(h) == h > SeekAbove

\* random.choice of a direction, then Herald.move
RandomMove ==
    /\ \E direction \in Directions : MoveBody(direction)
    /\ UNCHANGED <<width, height, food_locations, hunger, alive, eats>>

\* the result left in ret is the one of the Herald call the rule made
herald_auto_decide ==
    IF Rule1(sees_food, hunger)
    THEN EatBody
    ELSE IF Rule2(hunger)
         THEN LET food_location == LookAround(SeekVision, food_locations, x, y)
              IN  IF food_location # None
                  THEN /\ MoveTowardBody(food_location[1], food_location[2])
                       /\ UNCHANGED <<width, height, food_locations, hunger,
                                      alive, eats>>
                  ELSE RandomMove
         ELSE \/ RandomMove
              \/ WaitBody

---------------------------------------------------------------------------
(* herald_auto_decide as a function of the Herald, the World and the random
   draws *)

PolicyHungers ==
    {h \in 0 .. StarveAt - 1 :
        h % HungerRate = 0 /\ Abs(h - 35) <= HungerRate * PolicySpread}

InitPolicy ==
    /\ width = PolicyWidth
    /\ height = PolicyHeight
    /\ food_locations \in
           {S \in SUBSET Cells(PolicyWidth, PolicyHeight) :
               Cardinality(S) <= PolicyFood /\ Cardinality(S) <= FoodDraws}
    /\ x \in 0 .. PolicyWidth - 1
    /\ y \in 0 .. PolicyHeight - 1
    /\ hunger \in PolicyHungers
    /\ alive = TRUE
    /\ actions_taken = <<>>
    /\ ret = Found(None)
    /\ eats = 0
    /\ logged = 0
    /\ NoGame

\* one decision per input
NextPolicy ==
    /\ logged = 0
    /\ herald_auto_decide
    /\ UNCHANGED game

SpecPolicy == InitPolicy /\ [][NextPolicy]_vars

---------------------------------------------------------------------------
(* Game *)

\* reset_world: World(width=10, height=10) and Herald(x=5, y=5), at the
\* scale of GameSide (the Herald starts on cell side / 2 of both axes)
reset_world ==
    /\ width' = GameSide
    /\ height' = GameSide
    /\ food_locations' \in SpawnedFood(GameSide, GameSide, GameFood)
    /\ x' = GameSide \div 2
    /\ y' = GameSide \div 2
    /\ hunger' = 0
    /\ alive' = TRUE
    /\ actions_taken' = <<>>
    /\ ret' = Found(None)
    /\ eats' = 0
    /\ logged' = 0
    /\ tick_count' = 0
    /\ auto_mode' = FALSE

\* command.lower().strip().split() of the lines a user types
Commands ==
    {<<"move", direction>> : direction \in Tokens}
       \cup {<<>>, <<"move">>, <<"eat">>, <<"wait">>, <<"status">>,
             <<"auto">>, <<"step">>, <<"stop">>, <<"reset">>, <<"help">>,
             <<"quit">>, <<"dance">>}

\* the commands that can add an entry to the log
Logging == {parts \in Commands : parts # <<>> /\ parts[1] \in {"move", "eat", "wait"}}

process_command(parts) ==
    IF parts = <<>>
    THEN UNCHANGED <<herald, running, auto_mode, step_mode, tick_count>>
    ELSE CASE parts[1] = "move" ->
                /\ IF Len(parts) < 2
                   THEN UNCHANGED herald
                   ELSE /\ MoveBody(parts[2])
                        /\ UNCHANGED <<width, height, food_locations, hunger,
                                       alive, eats>>
                /\ UNCHANGED <<running, auto_mode, step_mode, tick_count>>
           [] parts[1] = "eat" ->
                /\ EatBody
                /\ UNCHANGED <<running, auto_mode, step_mode, tick_count>>
           [] parts[1] = "wait" ->
                /\ WaitBody
                /\ UNCHANGED <<running, auto_mode, step_mode, tick_count>>
           [] parts[1] = "auto" ->
                /\ auto_mode' = TRUE
                /\ UNCHANGED <<herald, running, step_mode, tick_count>>
           [] parts[1] = "step" ->
                /\ step_mode' = TRUE
                /\ UNCHANGED <<herald, running, auto_mode, tick_count>>
           [] parts[1] = "stop" ->
                /\ auto_mode' = FALSE
                /\ step_mode' = FALSE
                /\ UNCHANGED <<herald, running, tick_count>>
           [] parts[1] = "reset" ->
                /\ reset_world
                /\ UNCHANGED <<running, step_mode>>
           [] parts[1] = "quit" ->
                /\ running' = FALSE
                /\ UNCHANGED <<herald, auto_mode, step_mode, tick_count>>
           [] OTHER ->
                UNCHANGED <<herald, running, auto_mode, step_mode, tick_count>>

\* Game.__init__, and Game.run about to start its first turn
InitGame ==
    /\ running = TRUE
    /\ auto_mode = FALSE
    /\ step_mode = FALSE
    /\ tick_count = 0
    /\ width = GameSide
    /\ height = GameSide
    /\ food_locations \in SpawnedFood(GameSide, GameSide, GameFood)
    /\ x = GameSide \div 2
    /\ y = GameSide \div 2
    /\ hunger = 0
    /\ alive = TRUE
    /\ actions_taken = <<>>
    /\ ret = Found(None)
    /\ eats = 0
    /\ logged = 0
    /\ pc = "turn"

\* the first half of the body of run's loop: one command or one decision
Turn ==
    /\ pc = "turn"
    /\ pc' = "tick"
    /\ IF auto_mode
       THEN \/ /\ auto_mode' = FALSE
               /\ UNCHANGED <<herald, running, step_mode, tick_count>>
            \/ /\ logged < GameLog
               /\ herald_auto_decide
               /\ UNCHANGED <<running, auto_mode, step_mode, tick_count>>
       ELSE IF step_mode
            THEN \/ /\ step_mode' = FALSE
                    /\ UNCHANGED <<herald, running, auto_mode, tick_count>>
                 \/ /\ logged < GameLog
                    /\ herald_auto_decide
                    /\ UNCHANGED <<running, auto_mode, step_mode, tick_count>>
            ELSE \E parts \in Commands :
                    /\ parts \in Logging => logged < GameLog
                    /\ process_command(parts)

\* EndTurn skipping the tick of the turn that quits
EndTurnUnlessQuit ==
    /\ pc = "tick"
    /\ IF running THEN tick ELSE UNCHANGED herald
    /\ tick_count' = tick_count + 1
    /\ pc' = IF ~alive' THEN "ask" ELSE IF running THEN "turn" ELSE "done"
    /\ UNCHANGED <<running, auto_mode, step_mode>>

\* the second half: the tick, the count, the death message and the loop test
EndTurn ==
    /\ pc = "tick"
    /\ tick
    /\ tick_count' = tick_count + 1
    /\ pc' = IF ~alive' THEN "ask" ELSE IF running THEN "turn" ELSE "done"
    /\ UNCHANGED <<running, auto_mode, step_mode>>

\* PlayAgain going on with the dead Herald when the answer is not yes
PlayAgainContinues ==
    /\ pc = "ask"
    /\ \/ /\ reset_world
          /\ pc' = IF running THEN "turn" ELSE "done"
          /\ UNCHANGED <<running, step_mode>>
       \/ /\ pc' = IF running THEN "turn" ELSE "done"
          /\ UNCHANGED <<herald, running, auto_mode, step_mode, tick_count>>

\* the answer to "Play again?": reset_world and continue, or break
PlayAgain ==
    /\ pc = "ask"
    /\ \/ /\ reset_world
          /\ pc' = IF running THEN "turn" ELSE "done"
          /\ UNCHANGED <<running, step_mode>>
       \/ /\ pc' = "done"
          /\ UNCHANGED <<herald, running, auto_mode, step_mode, tick_count>>

NextGame ==
    \/ Turn
    \/ EndTurn
    \/ PlayAgain

SpecGame == InitGame /\ [][NextGame]_vars

---------------------------------------------------------------------------
(* A session in which turns keep being taken and nothing resets the World *)

\* the commands of such a session
Staying == {parts \in Commands : parts = <<>> \/ parts[1] \notin {"reset", "quit"}}

TurnStaying ==
    /\ pc = "turn"
    /\ pc' = "tick"
    /\ IF auto_mode
       THEN \/ /\ auto_mode' = FALSE
               /\ UNCHANGED <<herald, running, step_mode, tick_count>>
            \/ /\ logged < GameLog
               /\ herald_auto_decide
               /\ UNCHANGED <<running, auto_mode, step_mode, tick_count>>
       ELSE IF step_mode
            THEN \/ /\ step_mode' = FALSE
                    /\ UNCHANGED <<herald, running, auto_mode, tick_count>>
                 \/ /\ logged < GameLog
                    /\ herald_auto_decide
                    /\ UNCHANGED <<running, auto_mode, step_mode, tick_count>>
            ELSE \E parts \in Staying :
                    /\ parts \in Logging => logged < GameLog
                    /\ process_command(parts)

NextStarve ==
    \/ TurnStaying
    \/ EndTurn

\* the turns keep being taken: a user who answers, a loop that runs
SpecStarve == InitGame /\ [][NextStarve]_vars /\ WF_vars(NextStarve)

---------------------------------------------------------------------------
(* Properties *)

InGrid(cx, cy) == 0 <= cx /\ cx < width /\ 0 <= cy /\ cy < height

Manhattan(cx, cy) == Abs(cx - x) + Abs(cy - y)

DiedCount(log) == Cardinality({i \in 1 .. Len(log) : log[i] = "DIED"})

Last(log) == log[Len(log)]

\* C1: once alive is false, no move, eat or wait changes the position, the
\* hunger or the food set.
DeathPermanence ==
    [][(~alive /\ ((\E d \in Tokens : move(d)) \/ eat \/ wait))
          => UNCHANGED <<x, y, hunger, food_locations>>]_vars

\* C2: while alive is true the position is inside the grid:
\* 0 <= x < width and 0 <= y < height.
BoundsInvariant == alive => (0 <= x /\ x < width /\ 0 <= y /\ y < height)

\* a live Herald that moved and was then refused at the edge of the grid
BoundsWitness ==
    /\ alive
    /\ ret = Result(FALSE, "Can't move there - out of bounds")
    /\ Len(actions_taken) > 0
    /\ Last(actions_taken) = "MOVE"

\* C3: hunger is an integer with 0 <= hunger <= 100 in every reachable state.
HungerClamp == hunger \in Int /\ 0 <= hunger /\ hunger <= 100

\* a meal that left hunger at the floor
HungerClampWitness ==
    /\ ret = Result(TRUE, "Ate food! Yum!")
    /\ hunger = 0
    /\ eats = 1

\* C4: only tick changes alive, only from true to false and exactly when the
\* incremented hunger is >= 100; tick on a dead Herald changes nothing.
AliveOnlyFalls ==
    [][/\ (alive' # alive) => (tick /\ alive /\ ~alive' /\ hunger + 5 >= 100)
       /\ (tick /\ alive /\ hunger + 5 >= 100) => ~alive'
       /\ (tick /\ ~alive) => UNCHANGED core]_vars

\* a Herald that died and was then made to act: it is still dead
AliveOnlyFallsWitness ==
    /\ ~alive
    /\ Len(actions_taken) > 1
    /\ Last(actions_taken) # "DIED"

\* C5: the log gains a DIED entry only by the tick that takes hunger to 100,
\* and holds one at most; with no eat, every tick of a live Herald adds 5, the
\* Herald is alive exactly while hunger < 100 (through the 19th tick), and at
\* hunger 100 (the 20th) it is dead with exactly one DIED entry.
DiedOnce ==
    /\ [](/\ DiedCount(actions_taken) = (IF alive THEN 0 ELSE 1)
          /\ (eats = 0) => (alive <=> hunger < 100))
    /\ [][/\ (DiedCount(actions_taken') # DiedCount(actions_taken))
               => /\ tick
                  /\ alive
                  /\ ~alive'
                  /\ hunger' = 100
                  /\ actions_taken' = Append(actions_taken, "DIED")
          /\ (tick /\ alive /\ eats = 0) => hunger' = hunger + 5]_vars

\* twenty ticks and nothing else
DiedOnceWitness ==
    /\ ~alive
    /\ eats = 0
    /\ hunger = 100
    /\ actions_taken = <<"DIED">>

\* C6: eat succeeds iff there is food at the position; on success exactly that
\* cell leaves the food set, hunger becomes max(0, hunger - 50), the position
\* is unchanged and one EAT entry is appended.
EatContract ==
    [][eat =>
         /\ ret'.ok <=> (<<x, y>> \in food_locations)
         /\ (<<x, y>> \in food_locations) =>
               /\ food_locations' = food_locations \ {<<x, y>>}
               /\ hunger' = (IF hunger - 50 > 0 THEN hunger - 50 ELSE 0)
               /\ x' = x /\ y' = y
               /\ actions_taken' = Append(actions_taken, "EAT")]_vars

\* a meal taken while other food stays on the grid
EatContractWitness ==
    /\ ret = Result(TRUE, "Ate food! Yum!")
    /\ <<x, y>> \notin food_locations
    /\ food_locations # {}
    /\ Last(actions_taken) = "EAT"

\* C7: eat on a cell without food returns the failure "No food here to eat"
\* and changes nothing (so a second call returns the same).
EatEmptyFails ==
    [][(eat /\ <<x, y>> \notin food_locations)
          => /\ ret' = Result(FALSE, "No food here to eat")
             /\ UNCHANGED core]_vars

\* eat has failed on an empty cell while food lies elsewhere
EatEmptyFailsWitness ==
    /\ ret = Result(FALSE, "No food here to eat")
    /\ <<x, y>> \notin food_locations
    /\ food_locations # {}

\* C8: the food set only shrinks, and only by a successful eat, which removes
\* the cell the Herald stands on.
FoodNeverReappears ==
    [][/\ food_locations' \subseteq food_locations
       /\ (food_locations' # food_locations)
            => /\ eat
               /\ ret'.ok
               /\ food_locations \ food_locations' = {<<x, y>>}]_vars

\* everything spawned was eaten and a later eat found nothing
FoodNeverReappearsWitness ==
    /\ eats >= 1
    /\ food_locations = {}
    /\ ret = Result(FALSE, "No food here to eat")

\* C9: a move out of the grid, or with an unknown direction, returns failure
\* and changes neither position, hunger, alive, food set nor log.
RejectedMove ==
    [][\A d \in Tokens :
          /\ (d \notin Directions /\ move(d))
               => (ret' = Result(FALSE, "Invalid direction") /\ UNCHANGED core)
          /\ (d \in Directions /\ ~InGrid(x + DeltaX(d), y + DeltaY(d))
                                /\ move(d))
               => /\ ret' = Result(FALSE, "Can't move there - out of bounds")
                  /\ UNCHANGED core]_vars

\* a move refused at (0, 0)
RejectedMoveWitness ==
    /\ ret = Result(FALSE, "Can't move there - out of bounds")
    /\ x = 0 /\ y = 0
    /\ actions_taken = <<>>

\* C10: look_around(r) returns a food cell of least Manhattan distance among
\* the in-grid food cells within Manhattan distance r, None when there is
\* none, and changes nothing.
LookAroundManhattan ==
    [][\A r \in 0 .. LookVision :
          look_around(r) =>
             LET visible == {c \in food_locations :
                                InGrid(c[1], c[2]) /\ Manhattan(c[1], c[2]) <= r}
             IN  /\ UNCHANGED core
                 /\ IF visible = {}
                    THEN ret'.cell = None
                    ELSE /\ ret'.cell \in visible
                         /\ \A c \in visible :
                               Manhattan(ret'.cell[1], ret'.cell[2])
                                  <= Manhattan(c[1], c[2])]_vars

\* the direction C14 names for the deltas dx, dy (not both 0)
NamedDirection(dx, dy) ==
    CASE Abs(dx) > Abs(dy) /\ dx > 0 -> "east"
      [] Abs(dx) > Abs(dy) /\ dx < 0 -> "west"
      [] Abs(dy) > Abs(dx) /\ dy > 0 -> "south"
      [] Abs(dy) > Abs(dx) /\ dy < 0 -> "north"
      [] Abs(dx) = Abs(dy) /\ dx > 0 -> "east"
      [] Abs(dx) = Abs(dy) /\ dx < 0 -> "west"

\* what one move(direction) call does to the position, the log and the result
OneMove(direction) ==
    LET cx == x + DeltaX(direction)
        cy == y + DeltaY(direction)
    IN  IF InGrid(cx, cy)
        THEN /\ x' = cx /\ y' = cy
             /\ ret'.ok
             /\ Len(actions_taken') = Len(actions_taken) + 1
             /\ Last(actions_taken') = "MOVE"
        ELSE /\ ~ret'.ok
             /\ UNCHANGED <<x, y, actions_taken>>

\* C14: move_toward(tx, ty) fails with "Already here" and changes nothing when
\* the target is the Herald's cell; otherwise it makes exactly one move and
\* returns its result, east or west when |dx| > |dy| or |dx| = |dy|, south or
\* north when |dy| > |dx|; at (3,3) with target (3,1) it moves north to (3,2).
MoveTowardOneMove ==
    [][\A t \in Targets :
          move_toward(t[1], t[2]) =>
             /\ UNCHANGED <<food_locations, hunger, alive>>
             /\ IF t = <<x, y>>
                THEN /\ ret' = Result(FALSE, "Already here")
                     /\ UNCHANGED <<x, y, actions_taken>>
                ELSE OneMove(NamedDirection(t[1] - x, t[2] - y))
             /\ (x = 3 /\ y = 3 /\ t = <<3, 1>>) =>
                   (x' = 3 /\ y' = 2 /\ ret' = Result(TRUE, "Moved north"))]_vars

\* the Herald went from (3,3) towards (3,1) and stands on (3,2)
MoveTowardOneMoveWitness ==
    /\ x = 3 /\ y = 2
    /\ actions_taken = <<"MOVE">>
    /\ ret = Result(TRUE, "Moved north")

\* the food cells within Manhattan distance vision_range of the Herald
Visible(vision_range) ==
    {c \in food_locations : Manhattan(c[1], c[2]) <= vision_range}

\* the cells of S nearest to the Herald
Nearest(S) ==
    {c \in S : \A e \in S : Manhattan(c[1], c[2]) <= Manhattan(e[1], e[2])}

\* cell a is scanned before cell b: dx ascending, dy ascending within a dx
ScannedBefore(a, b) == a[1] < b[1] \/ (a[1] = b[1] /\ a[2] < b[2])

\* C15: when food is visible, look_around returns, of the visible food cells
\* at the minimal Manhattan distance, the first in the scan order (dx
\* ascending, then dy ascending), and a second call in the state it leaves
\* returns the same cell.
LookAroundTieBreak ==
    [][\A vision_range \in 0 .. LookVision :
          (look_around(vision_range) /\ Visible(vision_range) # {}) =>
             /\ ret'.cell \in Nearest(Visible(vision_range))
             /\ \A c \in Nearest(Visible(vision_range)) \ {ret'.cell} :
                   ScannedBefore(ret'.cell, c)
             /\ LookAround(vision_range, food_locations', x', y') = ret'.cell
       ]_vars

\* look_around returned a food cell next to the Herald while another food
\* cell lies next to the Herald too
LookAroundTieBreakWitness ==
    /\ ret.cell \in food_locations
    /\ Manhattan(ret.cell[1], ret.cell[2]) = 1
    /\ \E c \in food_locations \ {ret.cell} : Manhattan(c[1], c[2]) = 1

\* C20: hunger is always a multiple of 5; a tick of a living Herald adds
\* exactly 5 and never passes 100; and alive <=> hunger < 100 holds at the
\* start and is kept by every step that is not an eat() of a dead Herald.
HungerSteps ==
    /\ (alive <=> hunger < StarveAt)
    /\ [](hunger % 5 = 0)
    /\ [][(tick /\ alive) =>
             (hunger' = hunger + 5 /\ hunger' <= 100)]_vars
    /\ [][((alive <=> hunger < 100) /\ ~(eat /\ ~alive)) =>
             (alive' <=> hunger' < 100)]_vars

\* the Herald ate once, at hunger 50 or less, and starved afterwards
HungerStepsWitness ==
    /\ actions_taken = <<"EAT", "DIED">>
    /\ eats = 1
    /\ hunger = 100
    /\ ~alive

\* C11: a decision taken with food on the Herald's cell and hunger > 30 eats,
\* whatever the random draws: the food of that cell is removed, hunger drops
\* by 50 floored at 0, the position is unchanged and the one entry logged is
\* EAT (no move, no wait).
Rule1Eats ==
    [][(herald_auto_decide /\ <<x, y>> \in food_locations /\ hunger > 30) =>
          /\ food_locations' = food_locations \ {<<x, y>>}
          /\ hunger' = Max(0, hunger - 50)
          /\ x' = x /\ y' = y
          /\ actions_taken' = Append(actions_taken, "EAT")
          /\ ret'.ok]_vars

\* the decision of scenario E's kind: hunger was 50, the food of the cell is
\* gone
Rule1EatsWitness ==
    /\ actions_taken = <<"EAT">>
    /\ hunger = 0
    /\ <<x, y>> \notin food_locations
    /\ eats = 1

\* C12: a decision taken with hunger > 40 and rule 1 not applying makes one
\* move_toward step toward the cell look_around(2) returns when it returns
\* one, and otherwise one move attempt in a cardinal direction; it never eats
\* and never waits.
Rule2Seeks ==
    [][(herald_auto_decide /\ hunger > 40
          /\ ~(<<x, y>> \in food_locations /\ hunger > 30)) =>
          LET found == LookAround(2, food_locations, x, y)
          IN  /\ UNCHANGED <<food_locations, hunger, eats>>
              /\ \A i \in 1 .. Len(actions_taken') :
                    actions_taken'[i] \notin {"EAT", "WAIT"}
              /\ IF found # None
                 THEN \/ /\ found = <<x, y>>
                         /\ ~ret'.ok
                         /\ UNCHANGED <<x, y, actions_taken>>
                      \/ /\ found # <<x, y>>
                         /\ OneMove(NamedDirection(found[1] - x, found[2] - y))
                 ELSE \E direction \in Directions : OneMove(direction)]_vars

\* a hungry Herald with no food in sight has stepped at random onto a cell
\* without food
Rule2SeeksWitness ==
    /\ actions_taken = <<"MOVE">>
    /\ hunger > 40
    /\ food_locations = {}

\* C17: no decision ends in "Already here"; when the decision calls
\* move_toward (hunger > 40, nothing eaten, look_around(2) returned a cell),
\* the target is not the Herald's cell, the call succeeds with the Herald
\* inside the grid, and the Manhattan distance to the target drops by
\* exactly 1.
PolicyMoveTowardSucceeds ==
    [][herald_auto_decide =>
          /\ ret'.msg # "Already here"
          /\ (hunger > 40 /\ eats' = eats
                /\ LookAround(2, food_locations, x, y) # None) =>
                LET target == LookAround(2, food_locations, x, y)
                IN  /\ target # <<x, y>>
                    /\ ret'.ok
                    /\ InGrid(x', y')
                    /\ Abs(target[1] - x') + Abs(target[2] - y')
                          = Abs(target[1] - x) + Abs(target[2] - y) - 1]_vars

\* a hungry Herald has stepped toward food two cells away and stands next
\* to it
PolicyMoveTowardSucceedsWitness ==
    /\ actions_taken = <<"MOVE">>
    /\ hunger > 40
    /\ ret.ok
    /\ \E c \in food_locations : Manhattan(c[1], c[2]) = 1
    /\ \A c \in food_locations : Manhattan(c[1], c[2]) >= 1

\* the most recent (up to 20) entries of a history, in order
MostRecent(all) ==
    IF Len(all) <= 20 THEN all ELSE SubSeq(all, Len(all) - 19, Len(all))

\* C16: the log never holds more than 20 entries; a successful move, a
\* successful eat, a wait and the fatal tick each append one entry at the
\* end, evicting the oldest entry when the log was full; no other step
\* changes the log.
BoundedHistory ==
    /\ [](Len(actions_taken) <= 20)
    /\ [][LET type ==
                CASE (\E d \in Tokens : move(d)) /\ ret'.ok -> "MOVE"
                  [] eat /\ ret'.ok -> "EAT"
                  [] wait -> "WAIT"
                  [] tick /\ alive /\ ~alive' -> "DIED"
                  [] OTHER -> "none"
          IN  actions_taken' =
                 IF type = "none"
                 THEN actions_taken
                 ELSE MostRecent(Append(actions_taken, type))]_vars

\* the log is full, the fatal tick is its newest entry and the move it
\* started with has been evicted
BoundedHistoryWitness ==
    /\ Len(actions_taken) = 20
    /\ Last(actions_taken) = "DIED"
    /\ actions_taken[1] = "WAIT"
    /\ logged >= 2

\* a new World and a new Herald on its start cell
FreshPair ==
    /\ hunger' = 0
    /\ alive'
    /\ x' = width' \div 2 /\ y' = height' \div 2
    /\ food_locations' # {}
    /\ food_locations' \subseteq Cells(width', height')
    /\ actions_taken' = <<>>

\* at most one move, eat or wait is made on the Herald, and no tick
AtMostOneAction ==
    /\ alive' = alive
    /\ \/ UNCHANGED core
       \/ /\ Len(actions_taken') = Len(actions_taken) + 1
          /\ SubSeq(actions_taken', 1, Len(actions_taken)) = actions_taken
          /\ CASE Last(actions_taken') = "MOVE" ->
                    /\ Abs(x' - x) + Abs(y' - y) = 1
                    /\ UNCHANGED <<food_locations, hunger>>
               [] Last(actions_taken') = "EAT" ->
                    /\ food_locations' = food_locations \ {<<x, y>>}
                    /\ hunger' = Max(0, hunger - 50)
                    /\ UNCHANGED <<x, y>>
               [] Last(actions_taken') = "WAIT" ->
                    UNCHANGED <<x, y, food_locations, hunger>>
               [] OTHER -> FALSE

\* exactly one tick is made on the Herald, and nothing else
OneTick ==
    /\ hunger' = IF hunger + 5 >= 100 THEN 100 ELSE hunger + 5
    /\ alive' = (hunger + 5 < 100)
    /\ UNCHANGED <<x, y, food_locations>>
    /\ tick_count' = tick_count + 1

\* C13: a turn of the loop (command, auto mode or step mode) makes at most
\* one move, eat or wait on the Herald (or replaces it, on "reset"), then
\* exactly one tick, and only after that tick does the next turn begin.
TurnStructure ==
    [][/\ pc = "turn" => (pc' = "tick" /\ (AtMostOneAction \/ FreshPair))
       /\ pc = "tick" => (OneTick /\ pc' # "tick")
       /\ pc' = "turn" => pc \in {"tick", "ask"}]_vars

\* the first turn moved the Herald and ticked it once
TurnStructureWitness ==
    /\ pc = "turn"
    /\ tick_count = 1
    /\ actions_taken = <<"MOVE">>
    /\ hunger = 5

\* C19: a turn begins only with a living Herald; the tick that kills leads to
\* the "Play again?" question; and the state of a dead Herald changes no
\* more: it is replaced by a new World and a new Herald (hunger 0, alive,
\* start cell, new food, count 0) or the loop ends.
NoDispatchToDead ==
    /\ [](pc = "turn" => alive)
    /\ [][(alive /\ ~alive') => (pc = "tick" /\ pc' = "ask")]_vars
    /\ [][~alive =>
            /\ pc = "ask"
            /\ \/ pc' = "done" /\ UNCHANGED herald
               \/ FreshPair /\ tick_count' = 0 /\ pc' \in {"turn", "done"}]_vars

\* a Herald starved in step mode and the game was played again: step mode
\* is still on and no tick was counted yet
NoDispatchToDeadWitness ==
    /\ pc = "turn"
    /\ step_mode
    /\ tick_count = 0
    /\ hunger = 0
    /\ alive

\* C18: without a reset the food is finite (at most 8 cells) and only ever
\* shrinks by the cell eaten; a living Herald has taken fewer than
\* 20 + 10 * (initial number of food cells) ticks, every turn counts one
\* tick, and the Herald is dead in the end (after at most that many ticks).
StarvationInevitable ==
    /\ [](Cardinality(food_locations) + eats <= 8)
    /\ [][Cardinality(food_locations') + eats'
             = Cardinality(food_locations) + eats]_vars
    /\ [](alive =>
             tick_count < 20 + 10 * (Cardinality(food_locations) + eats))
    /\ [](tick_count <= 20 + 10 * (Cardinality(food_locations) + eats))
    /\ [][pc = "tick" => tick_count' = tick_count + 1]_vars
    /\ <>(~alive)

\* the Herald ate the one cell of food at hunger 50 or more and died on the
\* thirtieth tick
StarvationInevitableWitness ==
    /\ ~alive
    /\ eats = 1
    /\ food_locations = {}
    /\ tick_count = 30

===========================================================================
